---- MODULE Spec2Model ----
(***************************************************************************)
(* A model of superset's webhook notification channel (src/webhook.py):    *)
(* WebhookNotification._get_content / _get_subject / _get_to / send.       *)
(*                                                                         *)
(* Python values are tagged records ([t |-> "none"], [t |-> "str", ...]).  *)
(* A Python str is a sequence of tokens (words and markup pieces), a bytes *)
(* object a sequence of integers in 0..255.                                *)
(***************************************************************************)
EXTENDS Integers, Sequences, FiniteSets, TLC

VARIABLES
    content,      \* self._content : the NotificationContent handed to the channel
    recipient,    \* self._recipient.recipient_config_json (a str)
    endpoint,     \* what requests.post will do when called (the environment)
    pc,           \* position of send(): "start", "resolved", "posted", "done"
    state,        \* DeliveryOutcome: "Pending", "Delivered", "Failed"
    subject,      \* local `subject` of send
    formatted,    \* local `content` of send (a WebhookContent)
    to,           \* local `to` of send
    posts,        \* the HTTP POST requests issued so far
    log,          \* the records written with logger.info
    raised        \* the exception that left send(), or NoException

vars == <<content, recipient, endpoint, pc, state, subject, formatted, to,
          posts, log, raised>>

---------------------------------------------------------------------------
(* Bounds of the model *)

MaxShots == 2        \* longest screenshots list
MaxShotLen == 3      \* longest screenshot, in bytes
MaxErrors == 2       \* longest SupersetErrorsException.errors list

---------------------------------------------------------------------------
(* Python values *)

PyNone == [t |-> "none"]
PyStr(s) == [t |-> "str", s |-> s]
PyBytes(b) == [t |-> "bytes", b |-> b]
PyList(xs) == [t |-> "list", xs |-> xs]
\* a dict keeps insertion order: a sequence of <<key, value>> pairs, keys are strs
PyDict(items) == [t |-> "dict", items |-> items]
\* HeaderDataType: an opaque dict, identified by a label
PyHeader(id) == [t |-> "header", id |-> id]

\* Python truthiness of a value (`if x:`)
Truthy(v) ==
    CASE v.t = "none"   -> FALSE
      [] v.t = "str"    -> Len(v.s) > 0
      [] v.t = "bytes"  -> Len(v.b) > 0
      [] v.t = "list"   -> Len(v.xs) > 0
      [] v.t = "dict"   -> Len(v.items) > 0
      [] OTHER          -> TRUE

\* `x or ""` as used for the description
OrEmpty(v) == IF Truthy(v) THEN v ELSE PyStr(<<>>)

RECURSIVE Concat(_)
Concat(ss) == IF Len(ss) = 0 THEN <<>> ELSE Head(ss) \o Concat(Tail(ss))

\* str(v) as %-formatting renders a value inside a template
Render(v) ==
    CASE v.t = "str"  -> v.s
      [] v.t = "none" -> <<"None">>
      [] OTHER        -> <<"<object>">>

---------------------------------------------------------------------------
(* flask_babel.gettext: `__(template, **variables)` is `template % variables` *)

Lit(tok) == [k |-> "lit", v |-> tok]
Ph(name) == [k |-> "ph", v |-> name]

\* template : a sequence of literal pieces and %(name)s placeholders,
\* variables : a record of Python values.  The result is a str.
Gettext(template, variables) ==
    Concat([i \in 1..Len(template) |->
              IF template[i].k = "lit" THEN <<template[i].v>>
              ELSE Render(variables[template[i].v])])

---------------------------------------------------------------------------
(* nh3.clean with its default settings, on a tokenised description.        *)
(* Tags of the default whitelist are kept with their whitelisted           *)
(* attributes, script elements are dropped with their content, other tags  *)
(* are dropped and their content kept, text is HTML-escaped.               *)

ScriptOpen == "<script>"
ScriptClose == "</script>"

CleanToken(tok) ==
    CASE tok = "<img src=x onerror=alert(1)>" -> <<"<img src=\"x\">">>
      [] tok = "<a href=javascript:alert(1)>" -> <<"<a rel=\"noopener noreferrer\">">>
      [] tok = "<blink>"                      -> <<>>
      [] tok = "</blink>"                     -> <<>>
      [] tok = "&"                            -> <<"&amp;">>
      [] OTHER                                -> <<tok>>

RECURSIVE CleanFrom(_, _)
CleanFrom(s, inScript) ==
    IF Len(s) = 0 THEN <<>>
    ELSE IF inScript
         THEN CleanFrom(Tail(s), Head(s) # ScriptClose)
         ELSE IF Head(s) = ScriptOpen
              THEN CleanFrom(Tail(s), TRUE)
              ELSE CleanToken(Head(s)) \o CleanFrom(Tail(s), FALSE)

Nh3Clean(s) == CleanFrom(s, FALSE)

---------------------------------------------------------------------------
(* base64.b64encode(...).decode('ascii') *)

B64Alphabet ==
    << "A","B","C","D","E","F","G","H","I","J","K","L","M","N","O","P",
       "Q","R","S","T","U","V","W","X","Y","Z","a","b","c","d","e","f",
       "g","h","i","j","k","l","m","n","o","p","q","r","s","t","u","v",
       "w","x","y","z","0","1","2","3","4","5","6","7","8","9","+","/" >>

B64Char(n) == B64Alphabet[n + 1]

RECURSIVE B64Encode(_)
B64Encode(b) ==
    IF Len(b) = 0 THEN <<>>
    ELSE IF Len(b) = 1 THEN
        LET n == b[1] * 65536
        IN  << B64Char(n \div 262144), B64Char((n \div 4096) % 64), "=", "=" >>
    ELSE IF Len(b) = 2 THEN
        LET n == b[1] * 65536 + b[2] * 256
        IN  << B64Char(n \div 262144), B64Char((n \div 4096) % 64),
               B64Char((n \div 64) % 64), "=" >>
    ELSE
        LET n == b[1] * 65536 + b[2] * 256 + b[3]
        IN  << B64Char(n \div 262144), B64Char((n \div 4096) % 64),
               B64Char((n \div 64) % 64), B64Char(n % 64) >>
            \o B64Encode(SubSeq(b, 4, Len(b)))

---------------------------------------------------------------------------
(* WebhookNotification: the formatter *)

ErrorTemplatePieces ==
    << Lit("Your report/alert was unable to be generated because of the following error:"),
       Ph("text"),
       Lit("Please check your dashboard/chart for errors."),
       Lit("\""), Ph("url"), Lit("\"") >>

\* _error_template(text)
ErrorTemplate(c, text) ==
    Gettext(ErrorTemplatePieces, [text |-> text, url |-> c.url])

WebhookContent(body, header_data, data, images) ==
    [body |-> body, header_data |-> header_data, data |-> data, images |-> images]

\* screenshots encoded in the opposite order
EncodeScreenshots_Reversed(shots) ==
    [i \in 1..Len(shots) |-> PyStr(B64Encode(shots[Len(shots) + 1 - i].b))]

\* the list comprehension of _get_content
EncodeScreenshots(shots) ==
    [i \in 1..Len(shots) |-> PyStr(B64Encode(shots[i].b))]

\* the description put in the body without sanitizing it
NormalBody_Unsanitized(c) ==
    PyDict(<< [k |-> <<"description">>, v |-> OrEmpty(c.description)],
              [k |-> <<"url">>, v |-> c.url] >>)

\* the body dict of the normal path
NormalBody(c) ==
    PyDict(<< [k |-> <<"description">>,
               v |-> PyStr(Nh3Clean(OrEmpty(c.description).s))],
              [k |-> <<"url">>, v |-> c.url] >>)

\* the error-text branch taken after, not before, the attachments are built
GetContent_ErrorKeepsAttachments(c) ==
    LET images == IF Truthy(c.screenshots)
                  THEN PyList(EncodeScreenshots(c.screenshots.xs))
                  ELSE PyList(<<>>)
        csv_data == IF Truthy(c.csv)
                    THEN PyDict(<< [k |-> Gettext(<<Ph("name"), Lit(".csv")>>,
                                                  [name |-> c.name]),
                                    v |-> c.csv] >>)
                    ELSE PyNone
    IN  IF Truthy(c.text)
        THEN WebhookContent(PyStr(ErrorTemplate(c, c.text)), PyNone, csv_data, images)
        ELSE WebhookContent(NormalBody(c), c.header_data, csv_data, images)

\* _get_content()
GetContent(c) ==
    IF Truthy(c.text)
    THEN WebhookContent(PyStr(ErrorTemplate(c, c.text)), PyNone, PyNone, PyNone)
    ELSE LET images == IF Truthy(c.screenshots)
                       THEN PyList(EncodeScreenshots(c.screenshots.xs))
                       ELSE PyList(<<>>)
             csv_data == IF Truthy(c.csv)
                         THEN PyDict(<< [k |-> Gettext(<<Ph("name"), Lit(".csv")>>,
                                                       [name |-> c.name]),
                                         v |-> c.csv] >>)
                         ELSE PyNone
         IN  WebhookContent(NormalBody(c), c.header_data, csv_data, images)

\* _get_subject()
GetSubject(c) == PyStr(Gettext(<<Ph("title")>>, [title |-> c.name]))

---------------------------------------------------------------------------
(* Exceptions *)

Exc(kind, msg) == [kind |-> kind, msg |-> msg, errors |-> <<>>]
\* SupersetErrorsException: carries a list of errors, each with a .message
SupersetErrors(errors) ==
    [kind |-> "SupersetErrorsException", msg |-> <<"SupersetErrorsException">>,
     errors |-> errors]
NoException == Exc("none", <<>>)

Ok(v) == [ok |-> TRUE, v |-> v, exc |-> NoException]
Err(exc) == [ok |-> FALSE, v |-> PyNone, exc |-> exc]

---------------------------------------------------------------------------
(* json.loads on the recipient configuration: flat objects whose values    *)
(* are strings or null, the empty list, a bare string or null; anything    *)
(* else is a JSONDecodeError.                                              *)

Quote == "\""

\* a JSON string starting at w[i]: "" or one token between quotes
ParseString(w, i) ==
    IF i + 1 <= Len(w) /\ w[i] = Quote /\ w[i + 1] = Quote
    THEN [ok |-> TRUE, s |-> <<>>, next |-> i + 2]
    ELSE IF i + 2 <= Len(w) /\ w[i] = Quote /\ w[i + 1] # Quote /\ w[i + 2] = Quote
         THEN [ok |-> TRUE, s |-> <<w[i + 1]>>, next |-> i + 3]
         ELSE [ok |-> FALSE, s |-> <<>>, next |-> i]

ParseScalar(w, i) ==
    IF i <= Len(w) /\ w[i] = "null"
    THEN [ok |-> TRUE, v |-> PyNone, next |-> i + 1]
    ELSE LET r == ParseString(w, i)
         IN  [ok |-> r.ok, v |-> PyStr(r.s), next |-> r.next]

JSONDecodeError == Exc("JSONDecodeError", <<"Expecting value">>)

RECURSIVE ParseMembers(_, _, _)
ParseMembers(w, i, acc) ==
    LET key == ParseString(w, i)
        val == ParseScalar(w, key.next + 1)
        items == Append(acc, [k |-> key.s, v |-> val.v])
    IN  IF ~key.ok \/ key.next > Len(w) \/ w[key.next] # ":" \/ ~val.ok
           \/ val.next > Len(w)
        THEN Err(JSONDecodeError)
        ELSE IF w[val.next] = "}" /\ val.next = Len(w) THEN Ok(PyDict(items))
        ELSE IF w[val.next] = "," THEN ParseMembers(w, val.next + 1, items)
        ELSE Err(JSONDecodeError)

JsonLoads(w) ==
    IF w = <<"{", "}">> THEN Ok(PyDict(<<>>))
    ELSE IF w = <<"[", "]">> THEN Ok(PyList(<<>>))
    ELSE IF Len(w) > 0 /\ w[1] = "{" THEN ParseMembers(w, 2, <<>>)
    ELSE LET r == ParseScalar(w, 1)
         IN  IF r.ok /\ r.next = Len(w) + 1 THEN Ok(r.v) ELSE Err(JSONDecodeError)

\* value[key] on a parsed JSON value
Subscript(v, key) ==
    IF v.t = "dict"
    THEN LET hits == {i \in 1..Len(v.items) : v.items[i].k = key}
         IN  IF hits = {} THEN Err(Exc("KeyError", key))
             ELSE Ok(v.items[CHOOSE i \in hits : \A j \in hits : j <= i].v)
    ELSE Err(Exc("TypeError", <<"not subscriptable with a str key">>))

\* a destination made up when the configuration gives none
GetTo_DefaultTarget(cfg) ==
    LET parsed == JsonLoads(cfg.s)
        found == IF parsed.ok THEN Subscript(parsed.v, <<"target">>) ELSE parsed
    IN  IF found.ok THEN found ELSE Ok(PyStr(<<"https://example.com/hook">>))

\* _get_to()
GetTo(cfg) ==
    LET parsed == JsonLoads(cfg.s)
    IN  IF parsed.ok THEN Subscript(parsed.v, <<"target">>) ELSE parsed

---------------------------------------------------------------------------
(* json.dumps *)

JsonEscape(tok) ==
    CASE tok = "\""                              -> "\\\""
      [] tok = "<img src=\"x\">"                 -> "<img src=\\\"x\\\">"
      [] tok = "<a rel=\"noopener noreferrer\">" -> "<a rel=\\\"noopener noreferrer\\\">"
      [] OTHER                                   -> tok

JsonString(s) == <<Quote>> \o [i \in 1..Len(s) |-> JsonEscape(s[i])] \o <<Quote>>

RECURSIVE JoinSeq(_, _)
\* sep.join(parts) on sequences of tokens
JoinSeq(parts, sep) ==
    IF Len(parts) = 0 THEN <<>>
    ELSE IF Len(parts) = 1 THEN parts[1]
    ELSE parts[1] \o sep \o JoinSeq(Tail(parts), sep)

NotSerializable == Exc("TypeError", <<"Object of type bytes is not JSON serializable">>)

RECURSIVE JsonDumps(_)
JsonDumps(v) ==
    CASE v.t = "none"   -> Ok(<<"null">>)
      [] v.t = "str"    -> Ok(JsonString(v.s))
      [] v.t = "bytes"  -> Err(NotSerializable)
      [] v.t = "header" -> Ok(<<"{", v.id, "}">>)
      [] v.t = "list"   ->
            LET parts == [i \in 1..Len(v.xs) |-> JsonDumps(v.xs[i])]
            IN  IF \E i \in 1..Len(parts) : ~parts[i].ok THEN Err(NotSerializable)
                ELSE Ok(<<"[">> \o JoinSeq([i \in 1..Len(parts) |-> parts[i].v], <<",">>)
                        \o <<"]">>)
      [] v.t = "dict"   ->
            LET parts == [i \in 1..Len(v.items) |-> JsonDumps(v.items[i].v)]
            IN  IF \E i \in 1..Len(parts) : ~parts[i].ok THEN Err(NotSerializable)
                ELSE Ok(<<"{">>
                        \o JoinSeq([i \in 1..Len(parts) |->
                                      JsonString(v.items[i].k) \o <<":">> \o parts[i].v],
                                   <<",">>)
                        \o <<"}">>)

---------------------------------------------------------------------------
(* WebhookNotification.send: the dispatcher *)

Timeout == 30

\* the payload with the header metadata put on the wire
Payload_WithHeaderData(subj, c) ==
    PyDict(<< [k |-> <<"subject">>, v |-> subj],
              [k |-> <<"content">>,
               v |-> PyDict(<< [k |-> <<"body">>, v |-> c.body],
                               [k |-> <<"data">>, v |-> c.data],
                               [k |-> <<"images">>, v |-> c.images],
                               [k |-> <<"header_data">>, v |-> c.header_data] >>)] >>)

\* the payload dict built by send
Payload(subj, c) ==
    PyDict(<< [k |-> <<"subject">>, v |-> subj],
              [k |-> <<"content">>,
               v |-> PyDict(<< [k |-> <<"body">>, v |-> c.body],
                               [k |-> <<"data">>, v |-> c.data],
                               [k |-> <<"images">>, v |-> c.images] >>)] >>)

\* URLs requests accepts; for anything else requests.post raises
\* MissingSchema / InvalidURL before sending anything
WellFormedUrls == {"https://example.com/hook"}
ValidUrl(v) == v.t = "str" /\ Len(v.s) = 1 /\ v.s[1] \in WellFormedUrls

\* the request requests.post(to, headers={}, data=..., timeout=30) sends
Request(url, data) ==
    [url |-> url, headers |-> {}, data |-> data, timeout |-> Timeout]

\* only server errors raise
RaiseForStatus_ServerErrorsOnly(code) == 500 <= code /\ code < 600

\* Response.raise_for_status(): TRUE when it raises HTTPError
RaiseForStatus(code) == 400 <= code /\ code < 600

HTTPError(code, url) ==
    Exc("HTTPError",
        <<ToString(code), IF code < 500 THEN "Client Error" ELSE "Server Error",
          "for url:">> \o url.s)

\* the except clauses in the opposite order: the generic one catches all
Handle_Generic(ex) == Exc("NotificationError", ex.msg)

\* the except clauses of send: what reaches the caller for an exception
\* raised inside the try block
Handle(ex) ==
    IF ex.kind = "SupersetErrorsException"
    THEN Exc("NotificationError", JoinSeq(ex.errors, <<";">>))
    ELSE Exc("NotificationError", ex.msg)

LogRecord(header_data, url, code) ==
    [level |-> "info", header_data |-> header_data, to |-> url, status_code |-> code]

\* send(), lines 108-110: subject, content and destination
SendResolve ==
    /\ pc = "start"
    /\ subject' = GetSubject(content)
    /\ formatted' = GetContent(content)
    /\ LET r == GetTo(recipient)
       IN  IF r.ok
           THEN /\ to' = r.v
                /\ pc' = "resolved"
                /\ UNCHANGED <<state, raised>>
           ELSE /\ raised' = r.exc
                /\ state' = "Failed"
                /\ pc' = "done"
                /\ UNCHANGED to
    /\ UNCHANGED <<content, recipient, endpoint, posts, log>>

\* send(), lines 112-122: payload, json.dumps, and the request going out
SendPost ==
    /\ pc = "resolved"
    /\ LET d == JsonDumps(Payload(subject, formatted))
       IN  IF ~d.ok
           THEN /\ raised' = Handle(d.exc)
                /\ state' = "Failed"
                /\ pc' = "done"
                /\ UNCHANGED posts
           ELSE IF ~ValidUrl(to)
           THEN /\ raised' = Handle(Exc("MissingSchema", <<"Invalid URL">>))
                /\ state' = "Failed"
                /\ pc' = "done"
                /\ UNCHANGED posts
           ELSE /\ posts' = Append(posts, Request(to, d.v))
                /\ pc' = "posted"
                /\ UNCHANGED <<state, raised>>
    /\ UNCHANGED <<content, recipient, endpoint, subject, formatted, to, log>>

\* a failed POST sent a second time before the failure is raised
SendResponse_Retry ==
    /\ pc = "posted"
    /\ pc' = "done"
    /\ IF endpoint.k = "status" /\ ~RaiseForStatus(endpoint.code)
       THEN /\ log' = Append(log, LogRecord(formatted.header_data, to, endpoint.code))
            /\ state' = "Delivered"
            /\ UNCHANGED <<raised, posts>>
       ELSE /\ raised' = Handle(CASE endpoint.k = "status" -> HTTPError(endpoint.code, to)
                                  [] endpoint.k = "fault" -> Exc(endpoint.what, <<endpoint.what>>)
                                  [] OTHER -> SupersetErrors(endpoint.errors))
            /\ posts' = Append(posts, posts[Len(posts)])
            /\ state' = "Failed"
            /\ UNCHANGED log
    /\ UNCHANGED <<content, recipient, endpoint, subject, formatted, to>>

\* send(), lines 122-130: the outcome of the POST, raise_for_status, the log
\* record and the except clauses
SendResponse ==
    /\ pc = "posted"
    /\ pc' = "done"
    /\ IF endpoint.k = "status" /\ ~RaiseForStatus(endpoint.code)
       THEN /\ log' = Append(log, LogRecord(formatted.header_data, to, endpoint.code))
            /\ state' = "Delivered"
            /\ UNCHANGED raised
       ELSE /\ raised' = Handle(CASE endpoint.k = "status" -> HTTPError(endpoint.code, to)
                                  [] endpoint.k = "fault" -> Exc(endpoint.what, <<endpoint.what>>)
                                  [] OTHER -> SupersetErrors(endpoint.errors))
            /\ state' = "Failed"
            /\ UNCHANGED log
    /\ UNCHANGED <<content, recipient, endpoint, subject, formatted, to, posts>>

Next == SendResolve \/ SendPost \/ SendResponse

---------------------------------------------------------------------------
(* Inputs *)

ReportContent(text, description, url, screenshots, csv, name, header_data) ==
    [text |-> text, description |-> description, url |-> url,
     screenshots |-> screenshots, csv |-> csv, name |-> name,
     header_data |-> header_data]

RECURSIVE SeqsUpTo(_, _)
\* the sequences over S of length at most n
SeqsUpTo(S, n) ==
    IF n = 0 THEN {<<>>}
    ELSE LET shorter == SeqsUpTo(S, n - 1)
         IN  shorter \cup {Append(q, x) : q \in {r \in shorter : Len(r) = n - 1}, x \in S}

ReportUrl == PyStr(<<"https://superset.example/chart/7">>)
ReportName == PyStr(<<"Q1 Sales">>)
HeaderData == PyHeader("header-metadata")

Texts == {PyNone, PyStr(<<>>), PyStr(<<"Query timed out">>)}

Descriptions ==
    {PyNone,
     PyStr(<<"Weekly", "&", "monthly">>),
     PyStr(<<"<b>", "Weekly", "</b>", "numbers">>),
     PyStr(<<"Hello", "<script>", "alert(1)", "</script>", "world">>),
     PyStr(<<"Hello", "<script>", "alert(1)">>),
     PyStr(<<"<img src=x onerror=alert(1)>", "chart">>),
     PyStr(<<"<a href=javascript:alert(1)>", "click", "</a>">>),
     PyStr(<<"<blink>", "Hello", "</blink>">>)}

ByteVals == {0, 173}
Screenshots == {PyBytes(b) : b \in SeqsUpTo(ByteVals, MaxShotLen)}
ScreenshotLists == {PyNone} \cup {PyList(xs) : xs \in SeqsUpTo(Screenshots, MaxShots)}

Csvs == {PyNone, PyBytes(<<>>), PyBytes(<<97, 44, 98>>)}

RecipientConfigs ==
    {PyStr(<<"{", Quote, "target", Quote, ":", Quote, "https://example.com/hook", Quote, "}">>),
     PyStr(<<"{", Quote, "name", Quote, ":", Quote, "ops", Quote, ",",
             Quote, "target", Quote, ":", Quote, "https://example.com/hook", Quote, "}">>),
     PyStr(<<"{", Quote, "target", Quote, ":", Quote, Quote, "}">>),
     PyStr(<<"{", "}">>),
     PyStr(<<"{", Quote, "url", Quote, ":", Quote, "https://example.com/hook", Quote, "}">>),
     PyStr(<<"[", "]">>),
     PyStr(<<"{", Quote, "target", Quote>>),
     PyStr(<<>>)}

StatusCodes == {101, 200, 201, 204, 299, 301, 304, 399, 400, 404, 499, 500, 503, 599, 600}
Faults == {"ConnectionError", "ReadTimeout", "SSLError"}
ErrorMessages == {<<"A failed">>, <<"B failed">>}

Endpoints ==
    {[k |-> "status", code |-> c] : c \in StatusCodes}
    \cup {[k |-> "fault", what |-> f] : f \in Faults}
    \cup {[k |-> "aggregated", errors |-> es] : es \in SeqsUpTo(ErrorMessages, MaxErrors)}

InitLocals ==
    /\ pc = "start"
    /\ state = "Pending"
    /\ subject = PyNone
    /\ formatted = PyNone
    /\ to = PyNone
    /\ posts = <<>>
    /\ log = <<>>
    /\ raised = NoException

\* deliveries: every recipient configuration and endpoint behaviour
Init ==
    /\ content \in {ReportContent(t, d, ReportUrl, s, c, ReportName, h) :
                      t \in Texts,
                      d \in {PyNone, PyStr(<<"Hello", "<script>", "alert(1)", "</script>", "world">>)},
                      s \in {PyNone, PyList(<<PyBytes(<<0, 173>>)>>)},
                      c \in Csvs,
                      h \in {PyNone, HeaderData}}
    /\ recipient \in RecipientConfigs
    /\ endpoint \in Endpoints
    /\ InitLocals

Spec == Init /\ [][Next]_vars

\* formatting of descriptions and error texts
InitSanitize ==
    /\ content \in {ReportContent(t, d, ReportUrl, s, c, ReportName, h) :
                      t \in Texts,
                      d \in Descriptions,
                      s \in {PyNone, PyList(<<PyBytes(<<0, 173>>)>>)},
                      c \in {PyNone, PyBytes(<<97, 44, 98>>)},
                      h \in {PyNone, HeaderData}}
    /\ recipient = PyStr(<<"{", Quote, "target", Quote, ":", Quote, "https://example.com/hook", Quote, "}">>)
    /\ endpoint \in {[k |-> "status", code |-> c] : c \in {200, 500}}
    /\ InitLocals

SpecSanitize == InitSanitize /\ [][Next]_vars

\* formatting of screenshots
InitImages ==
    /\ content \in {ReportContent(t, PyNone, ReportUrl, s, PyNone, ReportName, HeaderData) :
                      t \in {PyNone, PyStr(<<"Query timed out">>)},
                      s \in ScreenshotLists}
    /\ recipient = PyStr(<<"{", Quote, "target", Quote, ":", Quote, "https://example.com/hook", Quote, "}">>)
    /\ endpoint = [k |-> "status", code |-> 200]
    /\ InitLocals

SpecImages == InitImages /\ [][Next]_vars

---------------------------------------------------------------------------
(* Properties *)

Done == pc = "done"

GoodRecipientConfigs ==
    {PyStr(<<"{", Quote, "target", Quote, ":", Quote, "https://example.com/hook", Quote, "}">>),
     PyStr(<<"{", Quote, "name", Quote, ":", Quote, "ops", Quote, ",",
             Quote, "target", Quote, ":", Quote, "https://example.com/hook", Quote, "}">>)}

\* malformed JSON, or JSON without a `target` key
BadRecipientConfigs ==
    {PyStr(<<"{", "}">>),
     PyStr(<<"{", Quote, "url", Quote, ":", Quote, "https://example.com/hook", Quote, "}">>),
     PyStr(<<"[", "]">>),
     PyStr(<<"{", Quote, "target", Quote>>),
     PyStr(<<>>)}

\* C1: every failure of send reaches the caller as a NotificationError;
\* no lower-level exception (JSON parse error, missing key) escapes as itself.
C1_FailuresAreNotificationErrors ==
    state = "Failed" => raised.kind = "NotificationError"

\* C2 as stated: once the endpoint has answered the POST with a status code,
\* send returns normally if and only if the status is 2xx.
C2_DeliveredIff2xx ==
    (Done /\ Len(posts) = 1 /\ endpoint.k = "status")
        => (state = "Delivered" <=> endpoint.code \in 200..299)

\* C2 amended: once the endpoint has answered the POST with a status code,
\* send returns normally if and only if the status is outside 400..599 (so
\* 1xx, 2xx and 3xx answers are deliveries); a 4xx or 5xx status makes send
\* raise a NotificationError.
C2_DeliveredIffNotErrorStatus ==
    (Done /\ Len(posts) = 1 /\ endpoint.k = "status")
        => /\ state = "Delivered" <=> ~(endpoint.code \in 400..599)
           /\ state = "Failed" <=> endpoint.code \in 400..599
           /\ state = "Failed" => raised.kind = "NotificationError"
           /\ state = "Delivered" => raised = NoException

C2_Witness ==
    /\ Done /\ Len(posts) = 1 /\ endpoint.k = "status"
    /\ endpoint.code = 304 /\ state = "Delivered"

\* C3: for every content and a recipient whose target is a valid URL, when
\* the endpoint answers 2xx send completes without raising and writes exactly
\* one info log record holding the header metadata, the destination and the
\* status code.
C3_DeliveredAndLoggedOn2xx ==
    (Done /\ recipient \in GoodRecipientConfigs
          /\ endpoint.k = "status" /\ endpoint.code \in 200..299)
        => /\ state = "Delivered"
           /\ raised = NoException
           /\ log = <<LogRecord(content.header_data,
                                PyStr(<<"https://example.com/hook">>), endpoint.code)>>

\* C4: with a recipient configuration that is malformed or has no `target`
\* key, no POST is ever issued and no log record written, and send fails.
C4_NoPostOnBadConfig ==
    recipient \in BadRecipientConfigs
        => /\ posts = <<>>
           /\ log = <<>>
           /\ pc \in {"start", "done"}
           /\ Done => state = "Failed"

C4_Witness ==
    recipient \in BadRecipientConfigs /\ Done /\ state = "Failed" /\ posts = <<>>

\* C5: send is single-shot: at most one POST is ever issued, a delivery has
\* issued exactly one, and the outcome goes from Pending to Delivered or to
\* Failed once and then never changes, with no POST after it.
C5_SingleShot ==
    /\ [](/\ Len(posts) <= 1
          /\ state \in {"Pending", "Delivered", "Failed"}
          /\ state = "Delivered" => Len(posts) = 1
          /\ Done <=> state # "Pending")
    /\ [][/\ state # "Pending" => (state' = state /\ posts' = posts)
          /\ Len(posts') <= Len(posts) + 1]_vars

C5_Witness ==
    Done /\ state = "Failed" /\ Len(posts) = 1 /\ endpoint.k \in {"status", "fault"}

\* C6: with a non-empty error text the formatted body is the error template
\* holding that text and the content's URL, and images and data are absent,
\* whatever description, screenshots, csv and header metadata are.
C6_ErrorTextBody ==
    (pc # "start" /\ Truthy(content.text))
        => /\ formatted.body =
                PyStr(<<"Your report/alert was unable to be generated because of the following error:">>
                      \o content.text.s
                      \o <<"Please check your dashboard/chart for errors.", "\"">>
                      \o content.url.s \o <<"\"">>)
           /\ formatted.images = PyNone
           /\ formatted.data = PyNone

C6_Witness ==
    /\ Done /\ Truthy(content.text) /\ Truthy(content.description)
    /\ Truthy(content.screenshots) /\ Truthy(content.csv)
    /\ content.header_data = HeaderData
    /\ formatted.images = PyNone

\* nesting depth of position i of a serialized JSON text
JsonDepth(w, i) ==
    Cardinality({j \in 1..(i - 1) : w[j] \in {"{", "["}})
    - Cardinality({j \in 1..(i - 1) : w[j] \in {"}", "]"}})

\* the object keys found at nesting depth d of a serialized JSON text
JsonKeysAt(w, d) ==
    {w[i + 1] : i \in {j \in 1..(Len(w) - 3) :
                         /\ w[j] = Quote /\ w[j + 2] = Quote /\ w[j + 3] = ":"
                         /\ JsonDepth(w, j) = d}}

Tokens(w) == {w[i] : i \in 1..Len(w)}

\* C7: the header metadata is never transmitted: every request carries no
\* custom headers, its body is an object with the keys subject and content,
\* content has the keys body, data and images, and the header metadata occurs
\* nowhere in the body; it is the success log record that holds it.
C7_HeaderDataNotTransmitted ==
    /\ \A i \in 1..Len(posts) :
          /\ posts[i].headers = {}
          /\ JsonKeysAt(posts[i].data, 1) = {"subject", "content"}
          /\ JsonKeysAt(posts[i].data, 2) = {"body", "data", "images"}
          /\ HeaderData.id \notin Tokens(posts[i].data)
    /\ \A i \in 1..Len(log) :
          log[i].header_data \in {PyNone, content.header_data}

C7_Witness ==
    /\ Done /\ Len(posts) = 1 /\ content.header_data = HeaderData
    /\ log = <<LogRecord(HeaderData, PyStr(<<"https://example.com/hook">>), 200)>>

\* C8: when the POST raises the aggregated-errors fault, send raises a
\* NotificationError whose message is the contained messages in their order
\* with ';' between them, and not the fault's own str().
C8_AggregatedErrorsJoined ==
    (Done /\ Len(posts) = 1 /\ endpoint.k = "aggregated")
        => LET es == endpoint.errors
               n == Len(es)
           IN  /\ state = "Failed"
               /\ raised.kind = "NotificationError"
               /\ Len(raised.msg) = IF n = 0 THEN 0 ELSE 2 * n - 1
               /\ \A i \in 1..n : <<raised.msg[2 * i - 1]>> = es[i]
               /\ \A i \in 1..(n - 1) : raised.msg[2 * i] = ";"
               /\ raised.msg # SupersetErrors(es).msg

C8_Witness ==
    /\ Done /\ endpoint.k = "aggregated"
    /\ endpoint.errors = << <<"A failed">>, <<"B failed">> >>
    /\ raised = Exc("NotificationError", <<"A failed", ";", "B failed">>)

\* markup tokens of descriptions, before and after cleaning
TagTokens ==
    {"<b>", "</b>", "<script>", "</script>", "<img src=x onerror=alert(1)>",
     "<img src=\"x\">", "<a href=javascript:alert(1)>",
     "<a rel=\"noopener noreferrer\">", "</a>", "<blink>", "</blink>"}
\* tokens that execute script: script tags and their content, an event-handler
\* attribute, a javascript: URI
ExecutableTokens ==
    {"<script>", "</script>", "alert(1)", "<img src=x onerror=alert(1)>",
     "<a href=javascript:alert(1)>"}
IsWord(tok) == tok \in {"Weekly", "monthly", "numbers", "Hello", "world", "chart", "click"}

NormalPath == pc # "start" /\ ~Truthy(content.text)
BodyDescription == formatted.body.items[1].v

\* C9 as stated: on the normal path the description in the body is the input
\* with all markup stripped, only plain text retained.
C9_AllMarkupStripped ==
    NormalPath
        => /\ formatted.body.items[1].k = <<"description">>
           /\ Tokens(BodyDescription.s) \cap (TagTokens \cup ExecutableTokens) = {}
           /\ SelectSeq(BodyDescription.s, IsWord)
                = SelectSeq(OrEmpty(content.description).s, IsWord)

\* C9 amended: on the normal path the description in the body holds no script
\* element or its content, no event-handler attribute and no javascript: URI,
\* the plain-text words of the input are kept in their order, and a
\* description holding any such construct is not passed on as it is; tags of
\* the sanitizer's whitelist (such as <b>) stay in the description.
C9_ExecutableMarkupStripped ==
    NormalPath
        => /\ formatted.body.items[1].k = <<"description">>
           /\ Tokens(BodyDescription.s) \cap ExecutableTokens = {}
           /\ SelectSeq(BodyDescription.s, IsWord)
                = SelectSeq(OrEmpty(content.description).s, IsWord)
           /\ Tokens(OrEmpty(content.description).s) \cap ExecutableTokens # {}
                => BodyDescription # content.description

C9_Witness ==
    /\ Done
    /\ content.description = PyStr(<<"<img src=x onerror=alert(1)>", "chart">>)
    /\ BodyDescription = PyStr(<<"<img src=\"x\">", "chart">>)

B64Index(ch) == CHOOSE n \in 0..63 : B64Alphabet[n + 1] = ch

RECURSIVE B64Decode(_)
\* the bytes a padded base64 text stands for
B64Decode(s) ==
    IF Len(s) < 4 THEN <<>>
    ELSE LET a == B64Index(s[1])
             b == B64Index(s[2])
         IN  IF s[3] = "=" THEN <<a * 4 + b \div 16>>
             ELSE IF s[4] = "="
                  THEN <<a * 4 + b \div 16, (b % 16) * 16 + B64Index(s[3]) \div 4>>
                  ELSE <<a * 4 + b \div 16, (b % 16) * 16 + B64Index(s[3]) \div 4,
                         (B64Index(s[3]) % 4) * 64 + B64Index(s[4])>>
                       \o B64Decode(SubSeq(s, 5, Len(s)))

InputScreenshots == IF content.screenshots.t = "list" THEN content.screenshots.xs ELSE <<>>

\* C10: on the normal path images has one element per screenshot, the i-th
\* being the padded base64 text of the i-th screenshot's bytes; without
\* screenshots images is the empty list.
C10_ImagesAreBase64InOrder ==
    NormalPath
        => /\ formatted.images.t = "list"
           /\ Len(formatted.images.xs) = Len(InputScreenshots)
           /\ \A i \in 1..Len(InputScreenshots) :
                LET img == formatted.images.xs[i]
                    raw == InputScreenshots[i].b
                IN  /\ img.t = "str"
                    /\ Len(img.s) = 4 * ((Len(raw) + 2) \div 3)
                    /\ Tokens(img.s) \subseteq Tokens(B64Alphabet) \cup {"="}
                    /\ B64Decode(img.s) = raw

C10_Witness ==
    /\ Done /\ ~Truthy(content.text)
    /\ content.screenshots = PyList(<<PyBytes(<<0, 173, 173>>), PyBytes(<<173>>)>>)
    /\ formatted.images = PyList(<<PyStr(<<"A", "K", "2", "t">>),
                                   PyStr(<<"r", "Q", "=", "=">>)>>)

====
